---------------------------- MODULE Spec2Model ----------------------------
(***************************************************************************)
(* Mob Hunters (src/main.py): the per-frame game loop of class Game.       *)
(*                                                                         *)
(* State: the fields of Game, Player, Mob, Animal and Arrow that the       *)
(* loop reads and writes, plus the position of main() in its loop (pc) and *)
(* of update() in its statement sequence and its for-loops (pc, i, snap,   *)
(* cur).  Rectangles are not state of the model: the outcome of every      *)
(* geometric test the code makes (colliderect, distance_to <= range) is an *)
(* input of the step that makes the test, as are the clock's dt, the       *)
(* event queue, the pressed keys and every random draw.  The inputs a step *)
(* used are recorded in inp, so that a property can relate them to the     *)
(* step's effect.                                                          *)
(***************************************************************************)
EXTENDS Integers, Sequences, FiniteSets, TLC

VARIABLES
    pc,                 \* position of main() / update()
    running,            \* Game.running
    dt,                 \* main(): dt = game.clock.tick(FPS)
    now,                \* pygame.time.get_ticks()
    nev,                \* events taken from pygame.event.get() in this frame
    theme, prev_theme,  \* Game.theme, Game.prev_theme
    spawn_timer, animal_spawn_timer,
    p1,                 \* Game.p1: [hp, alive, weapon, last_attack, score]
    mobs,               \* Game.mobs: Seq of [kind, hp, alive, shots_left, last_shot_time]
    animals,            \* Game.animals: Seq of [kind, hp, alive]
    weapon_drops,       \* Game.weapon_drops: Seq of Weapon
    health_packs,       \* Game.health_packs: Seq of [amount, heals]
    projectiles,        \* Game.projectiles: Seq of [alive, ttl_ms, dmg, hits]
    paused, round_over, end_boss_alive,
    attack_latch,       \* Game.vpad._attack_latch
    i,                  \* index of the for-loop update() is in (1-based)
    snap,               \* list(enumerate(...)): the snapshot a loop iterates
    cur,                \* the list being popped from, as indices into snap
    inp,                \* the inputs of the last step
    error,              \* main(): the frame ended in the except branch
    boss_spawns         \* history: the calls of spawn_boss so far

vars == << pc, running, dt, now, nev, theme, prev_theme, spawn_timer,
           animal_spawn_timer, p1, mobs, animals, weapon_drops, health_packs,
           projectiles, paused, round_over, end_boss_alive, attack_latch,
           i, snap, cur, inp, error, boss_spawns >>

-----------------------------------------------------------------------------
(* Config and data tables                                                  *)

OVERWORLD == "OVERWORLD"
NETHER == "NETHER"
END == "END"

MAX_LIVE_MOBS == 25
MAX_ALIVE_ANIMALS == 7

Weapon(name, dmg, range_px, cooldown_ms) ==
    [name |-> name, dmg |-> dmg, range_px |-> range_px, cooldown_ms |-> cooldown_ms]

SWORD == Weapon("Sword", 28, 85, 280)
ELITE_SWORD == Weapon("Diamond Sword", 36, 95, 260)
BOSS_LOOT == Weapon("End Sword", 50, 110, 240)

MobKind(name, hp, score, color_key, contact_dmg) ==
    [name |-> name, hp |-> hp, score |-> score, color_key |-> color_key,
     contact_dmg |-> contact_dmg]

MOB_KINDS_OVER ==
    << MobKind("Zombie Chicken Jockey", 50, 18, "mob", 9),
       MobKind("Skeleton Spider Jockey", 65, 24, "elite", 10),
       MobKind("Zombie", 45, 12, "mob", 8),
       MobKind("Skeleton", 42, 14, "mob", 9),
       MobKind("Spider", 36, 16, "mob", 8),
       MobKind("Pigman", 60, 20, "elite", 11) >>

MOB_KINDS_NETH ==
    << MobKind("Wither Skeleton", 90, 26, "elite", 12),
       MobKind("Blaze", 80, 24, "elite", 11),
       MobKind("Ghast (mini)", 75, 30, "elite", 12) >>

BOSS_ENDER == MobKind("Ender Dragon (tiny)", 400, 250, "boss", 16)

AnimalKind(name, hp, heal_amount) ==
    [name |-> name, hp |-> hp, heal_amount |-> heal_amount]

ANIMALS ==
    << AnimalKind("Chicken", 20, 15),
       AnimalKind("Pig", 35, 25),
       AnimalKind("Cow", 50, 35) >>

SPAWN_INTERVAL_MS == 1000
ANIMAL_SPAWN_INTERVAL_MS == 3500
PLAYER_MAX_HP == 100
ARROW_DMG == 12
ARROW_TTL_MS == 3500
SHOTS == 3
SHOT_COOLDOWN_MS == 950

clamp(v, lo, hi) == IF v < lo THEN lo ELSE IF v > hi THEN hi ELSE v

Range(s) == { s[k] : k \in DOMAIN s }

\* "skeleton" in kind.name.lower(): the kinds of the tables whose name has it
ArcherNames == { "Skeleton Spider Jockey", "Skeleton", "Wither Skeleton" }

-----------------------------------------------------------------------------
(* Entities                                                                *)

Player ==
    [hp |-> PLAYER_MAX_HP, alive |-> TRUE, weapon |-> SWORD,
     last_attack |-> 0, score |-> 0]

\* shots_fired counts the arrows the mob has fired (history)
Mob(kind) ==
    [kind |-> kind, hp |-> kind.hp, alive |-> TRUE,
     shots_left |-> IF kind.name \in ArcherNames THEN SHOTS ELSE 0,
     last_shot_time |-> 0, shots_fired |-> 0]

Animal(kind) == [kind |-> kind, hp |-> kind.hp, alive |-> TRUE]

\* hits counts the times the arrow has damaged the player (history)
Arrow == [alive |-> TRUE, ttl_ms |-> ARROW_TTL_MS, dmg |-> ARROW_DMG, hits |-> 0]

\* heals counts the times the pack has healed the player (history)
Pack(amount) == [amount |-> amount, heals |-> 0]


-----------------------------------------------------------------------------
(* Helpers on lists                                                        *)

\* list.pop(k-1) on a list that has a k-th element
RemoveAt(s, k) == SubSeq(s, 1, k - 1) \o SubSeq(s, k + 1, Len(s))

\* the list a loop pops from: the snapshot's objects that are still in it
Deref(sn, c) == [ j \in 1..Len(c) |-> sn[c[j]] ]

Indices(n) == [ j \in 1..n |-> j ]

AliveOnly(s) == SelectSeq(s, LAMBDA x : x.alive)

NoInp ==
    [step |-> "none", ev |-> "none", did |-> "none", held |-> FALSE,
     hit |-> {}, lucky |-> {},
     portal |-> "none", mob_kind |-> "none", animal_kind |-> "none",
     touch |-> FALSE, near |-> FALSE, over |-> FALSE, off |-> FALSE]

-----------------------------------------------------------------------------
(* Spawning                                                                *)

live_mob_count(ms) == Cardinality({ k \in DOMAIN ms : ms[k].alive })

alive_animal_count(as) == Cardinality({ k \in DOMAIN as : as[k].alive })

\* a faulty current_pool: the End draws from the Nether pool
current_pool_EndNether(th, extra) ==
    IF th = OVERWORLD THEN MOB_KINDS_OVER ELSE Append(MOB_KINDS_NETH, extra)

\* extra is the kind random.choice(MOB_KINDS_OVER) drew for the Nether pool
current_pool(th, extra) ==
    IF th = OVERWORLD THEN MOB_KINDS_OVER
    ELSE IF th = NETHER THEN Append(MOB_KINDS_NETH, extra)
    ELSE MOB_KINDS_OVER

\* kind is random.choice(pool)
spawn_mob(ms, kind) ==
    IF live_mob_count(ms) >= MAX_LIVE_MOBS THEN ms ELSE Append(ms, Mob(kind))

\* a faulty animal_due: the timer must pass the interval
animal_due_Late(timer, d) == timer + d > ANIMAL_SPAWN_INTERVAL_MS

\* update: self.animal_spawn_timer >= self.animal_spawn_interval_ms, after += dt
animal_due(timer, d) == timer + d >= ANIMAL_SPAWN_INTERVAL_MS

\* kind is random.choice(ANIMALS)
spawn_animal(as, kind) ==
    IF alive_animal_count(as) >= MAX_ALIVE_ANIMALS THEN as
    ELSE Append(as, Animal(kind))

spawn_boss(ms) ==
    [mobs |-> Append(ms, Mob(BOSS_ENDER)), end_boss_alive |-> TRUE]

-----------------------------------------------------------------------------
(* Combat                                                                  *)

\* hp and alive of dmg_target (a player, mob or animal record)
apply_damage(t, dmg) ==
    IF ~t.alive THEN t
    ELSE [t EXCEPT !.hp = t.hp - dmg, !.alive = (t.hp - dmg > 0)]

IsBoss(m) == m.kind.color_key = "boss"

\* the alive mobs, then the alive animals, as hunter_melee lists them
Targets(ms, as) ==
    [ k \in 1..Len(ms) |-> << "m", k >> ] \o [ k \in 1..Len(as) |-> << "a", k >> ]

AliveTargets(ms, as) ==
    SelectSeq(Targets(ms, as),
              LAMBDA t : IF t[1] = "m" THEN ms[t[2]].alive ELSE as[t[2]].alive)

\* a faulty try_attack: the cooldown is not tested
try_attack_NoCooldown(p, time, in_range) == in_range

\* Player.try_attack: the targets hit, given those within weapon.range_px
try_attack(p, time, in_range) ==
    IF time - p.last_attack < p.weapon.cooldown_ms THEN {} ELSE in_range

\* a faulty MeleeHit: an animal yields its pack at every hit
MeleeHit_PackAtEveryHit(g, t, lucky) ==
    IF t[1] = "m" THEN
        LET m == apply_damage(g.mobs[t[2]], g.p1.weapon.dmg)
        IN  [g EXCEPT
               !.mobs[t[2]] = m,
               !.end_boss_alive = IF ~m.alive /\ IsBoss(m) THEN FALSE ELSE @,
               !.p1.score = IF ~m.alive THEN @ + m.kind.score ELSE @,
               !.weapon_drops =
                   IF m.alive THEN @
                   ELSE IF ~IsBoss(m) THEN (IF lucky THEN Append(@, ELITE_SWORD) ELSE @)
                   ELSE Append(@, BOSS_LOOT)]
    ELSE
        LET a == apply_damage(g.animals[t[2]], g.p1.weapon.dmg)
        IN  [g EXCEPT
               !.animals[t[2]] = a,
               !.health_packs = Append(@, Pack(a.kind.heal_amount))]

\* hunter_melee's body for one hit target; lucky: random.random() < p for it
MeleeHit(g, t, lucky) ==
    IF t[1] = "m" THEN
        LET m == apply_damage(g.mobs[t[2]], g.p1.weapon.dmg)
        IN  [g EXCEPT
               !.mobs[t[2]] = m,
               !.end_boss_alive = IF ~m.alive /\ IsBoss(m) THEN FALSE ELSE @,
               !.p1.score = IF ~m.alive THEN @ + m.kind.score ELSE @,
               !.weapon_drops =
                   IF m.alive THEN @
                   ELSE IF ~IsBoss(m) THEN (IF lucky THEN Append(@, ELITE_SWORD) ELSE @)
                   ELSE Append(@, BOSS_LOOT)]
    ELSE
        LET a == apply_damage(g.animals[t[2]], g.p1.weapon.dmg)
        IN  [g EXCEPT
               !.animals[t[2]] = a,
               !.health_packs =
                   IF a.alive THEN @ ELSE Append(@, Pack(a.kind.heal_amount))]

RECURSIVE MeleeLoop(_, _, _, _, _)
MeleeLoop(g, ts, k, hits, lucky) ==
    IF k > Len(ts) THEN g
    ELSE MeleeLoop(IF ts[k] \in hits THEN MeleeHit(g, ts[k], ts[k] \in lucky) ELSE g,
                   ts, k + 1, hits, lucky)

\* g: [p1, mobs, animals, weapon_drops, health_packs, end_boss_alive]
hunter_melee(g, time, in_range, lucky) ==
    LET hits == try_attack(g.p1, time, in_range)
        g1 == IF hits # {} THEN [g EXCEPT !.p1.last_attack = time] ELSE g
    IN  MeleeLoop(g1, AliveTargets(g.mobs, g.animals), 1, hits, lucky)

\* a faulty mobs_damage_p1_on_touch: the rectangles are not tested
mobs_damage_p1_on_touch_NoTest(p, ro, m, touch) ==
    IF ~(m.alive /\ p.alive) THEN [p1 |-> p, round_over |-> ro]
    ELSE
        LET q == apply_damage(p, m.kind.contact_dmg)
        IN  IF q.hp <= 0 THEN [p1 |-> [q EXCEPT !.alive = FALSE], round_over |-> TRUE]
            ELSE [p1 |-> q, round_over |-> ro]

\* the player and round_over after mobs_damage_p1_on_touch(m); touch: colliderect
mobs_damage_p1_on_touch(p, ro, m, touch) ==
    IF ~(m.alive /\ p.alive) THEN [p1 |-> p, round_over |-> ro]
    ELSE IF touch THEN
        LET q == apply_damage(p, m.kind.contact_dmg)
        IN  IF q.hp <= 0 THEN [p1 |-> [q EXCEPT !.alive = FALSE], round_over |-> TRUE]
            ELSE [p1 |-> q, round_over |-> ro]
    ELSE [p1 |-> p, round_over |-> ro]

\* a faulty shoots: the cooldown is not tested
shoots_NoCooldown(m, p, time, near) ==
    /\ m.kind.name \in ArcherNames /\ m.shots_left > 0 /\ p.alive
    /\ near

\* whether try_skeleton_shoot(m, time) fires; near: dist <= m.shot_range
shoots(m, p, time, near) ==
    /\ m.kind.name \in ArcherNames /\ m.shots_left > 0 /\ p.alive
    /\ near
    /\ ~(time - m.last_shot_time < SHOT_COOLDOWN_MS)

\* Arrow.update(dt_ms); off: the arrow has left the screen
arrow_update(a, d, off) ==
    IF ~a.alive THEN a
    ELSE [a EXCEPT !.ttl_ms = a.ttl_ms - d,
                   !.alive = ~(a.ttl_ms - d <= 0) /\ ~off]

-----------------------------------------------------------------------------
(* Theme transitions                                                       *)

\* a faulty NoBoss: the boss filter keeps everything
NoBoss_KeepsBoss(ms) == ms

NoBoss(ms) == SelectSeq(ms, LAMBDA m : m.kind.color_key # "boss")

\* a faulty handle_theme_transitions: prev_theme is not brought up to date
handle_theme_transitions_StalePrev(th, prev, ms, eba) ==
    IF th # prev THEN
        LET a == IF prev = END /\ th # END
                 THEN [mobs |-> NoBoss(ms), end_boss_alive |-> FALSE]
                 ELSE [mobs |-> ms, end_boss_alive |-> eba]
            b == IF th = END THEN spawn_boss(NoBoss(a.mobs)) ELSE a
        IN  [prev_theme |-> prev, mobs |-> b.mobs, end_boss_alive |-> b.end_boss_alive]
    ELSE [prev_theme |-> prev, mobs |-> ms, end_boss_alive |-> eba]

\* the fields _handle_theme_transitions writes, given the theme just set
handle_theme_transitions(th, prev, ms, eba) ==
    IF th # prev THEN
        LET a == IF prev = END /\ th # END
                 THEN [mobs |-> NoBoss(ms), end_boss_alive |-> FALSE]
                 ELSE [mobs |-> ms, end_boss_alive |-> eba]
            b == IF th = END THEN spawn_boss(NoBoss(a.mobs)) ELSE a
        IN  [prev_theme |-> th, mobs |-> b.mobs, end_boss_alive |-> b.end_boss_alive]
    ELSE [prev_theme |-> prev, mobs |-> ms, end_boss_alive |-> eba]


-----------------------------------------------------------------------------
(* Game.__init__ and the main loop                                         *)

\* the fields Game.__init__ sets (restart() runs it again on the same object)
GameInit ==
    /\ theme = OVERWORLD /\ prev_theme = OVERWORLD
    /\ spawn_timer = 0 /\ animal_spawn_timer = 0
    /\ p1 = Player
    /\ mobs = << >> /\ animals = << >>
    /\ weapon_drops = << >> /\ health_packs = << >> /\ projectiles = << >>
    /\ paused = FALSE /\ round_over = FALSE /\ end_boss_alive = FALSE
    /\ running = TRUE /\ attack_latch = FALSE

Init ==
    /\ GameInit
    /\ pc = "loop" /\ dt = 0 /\ now = 0 /\ nev = 0
    /\ i = 0 /\ snap = << >> /\ cur = << >>
    /\ inp = NoInp /\ error = FALSE /\ boss_spawns = 0

GameVars ==
    << theme, prev_theme, spawn_timer, animal_spawn_timer, p1, mobs, animals,
       weapon_drops, health_packs, projectiles, paused, round_over,
       end_boss_alive, running, attack_latch >>

LoopVars == << i, snap, cur >>

\* whether setting the theme to th makes _handle_theme_transitions call spawn_boss
EntersEnd(th) == th # prev_theme /\ th = END

\* main(): while game.running: dt = game.clock.tick(FPS)
Tick(P) ==
    /\ pc = "loop" /\ running /\ now < P.horizon
    /\ \E d \in P.dts : dt' = d /\ now' = now + d
    /\ pc' = "events" /\ nev' = 0 /\ inp' = NoInp /\ error' = FALSE
    /\ UNCHANGED << GameVars, LoopVars, boss_spawns >>

\* main(): the loop ends, pygame.quit()
Exit ==
    /\ pc = "loop" /\ ~running
    /\ pc' = "done"
    /\ UNCHANGED << GameVars, LoopVars, dt, now, nev, inp, error, boss_spawns >>

\* a faulty restart: the mob list survives the restart
restart_KeepsMobs ==
    /\ theme' = OVERWORLD /\ prev_theme' = OVERWORLD
    /\ spawn_timer' = 0 /\ animal_spawn_timer' = 0
    /\ p1' = Player
    /\ mobs' = mobs /\ animals' = << >>
    /\ weapon_drops' = << >> /\ health_packs' = << >> /\ projectiles' = << >>
    /\ paused' = FALSE /\ round_over' = FALSE /\ end_boss_alive' = FALSE
    /\ running' = TRUE /\ attack_latch' = FALSE

\* Game.restart(): Game.__init__ on the same object
restart ==
    /\ theme' = OVERWORLD /\ prev_theme' = OVERWORLD
    /\ spawn_timer' = 0 /\ animal_spawn_timer' = 0
    /\ p1' = Player
    /\ mobs' = << >> /\ animals' = << >>
    /\ weapon_drops' = << >> /\ health_packs' = << >> /\ projectiles' = << >>
    /\ paused' = FALSE /\ round_over' = FALSE /\ end_boss_alive' = FALSE
    /\ running' = TRUE /\ attack_latch' = FALSE

\* handle_events: self.theme = th; self._handle_theme_transitions()
SetTheme(th) ==
    LET r == handle_theme_transitions(th, prev_theme, mobs, end_boss_alive)
    IN  /\ theme' = th /\ prev_theme' = r.prev_theme
        /\ mobs' = r.mobs /\ end_boss_alive' = r.end_boss_alive

Events == { "QUIT", "K_ESCAPE", "K_p", "K_r", "K_1", "K_2", "K_3", "ATTACK_TAP", "OTHER" }

\* the body of handle_events' for-loop, for one event e
handle_event(e) ==
    CASE e = "ATTACK_TAP" ->
            /\ attack_latch' = TRUE
            /\ UNCHANGED << theme, prev_theme, spawn_timer, animal_spawn_timer, p1,
                            mobs, animals, weapon_drops, health_packs, projectiles,
                            paused, round_over, end_boss_alive, running >>
      [] e \in { "QUIT", "K_ESCAPE" } ->
            /\ running' = FALSE
            /\ UNCHANGED << theme, prev_theme, spawn_timer, animal_spawn_timer, p1,
                            mobs, animals, weapon_drops, health_packs, projectiles,
                            paused, round_over, end_boss_alive, attack_latch >>
      [] e = "K_p" ->
            /\ paused' = ~paused
            /\ UNCHANGED << theme, prev_theme, spawn_timer, animal_spawn_timer, p1,
                            mobs, animals, weapon_drops, health_packs, projectiles,
                            round_over, end_boss_alive, running, attack_latch >>
      [] e = "K_r" ->
            IF round_over THEN restart ELSE UNCHANGED GameVars
      [] e \in { "K_1", "K_2", "K_3" } ->
            /\ SetTheme(IF e = "K_1" THEN OVERWORLD ELSE IF e = "K_2" THEN NETHER ELSE END)
            /\ UNCHANGED << spawn_timer, animal_spawn_timer, p1, animals, weapon_drops,
                            health_packs, projectiles, paused, round_over, running,
                            attack_latch >>
      [] OTHER -> UNCHANGED GameVars

\* handle_events: the next event of pygame.event.get()
HandleEvent(P) ==
    /\ pc = "events" /\ nev < P.maxev
    /\ \E e \in P.events :
          /\ handle_event(e)
          /\ inp' = [NoInp EXCEPT !.step = "event", !.ev = e,
                                  !.did = IF e = "K_r" /\ round_over THEN "restart"
                                          ELSE "none"]
          /\ boss_spawns' = IF e = "K_3" /\ EntersEnd(END) THEN boss_spawns + 1
                            ELSE boss_spawns
    /\ nev' = nev + 1
    /\ UNCHANGED << pc, dt, now, LoopVars, error >>

\* handle_events returns
EventsDone ==
    /\ pc = "events"
    /\ pc' = "update" /\ inp' = NoInp
    /\ UNCHANGED << GameVars, LoopVars, dt, now, nev, error, boss_spawns >>


-----------------------------------------------------------------------------
(* Game.update(dt), statement by statement                                 *)

Min(a, b) == IF a < b THEN a ELSE b

\* the targets an attack can find within range: the first reach_mobs alive mobs
\* and the first reach_animals alive animals
Reachable(P) ==
    LET am == AliveTargets(mobs, << >>)
        aa == AliveTargets(<< >>, animals)
    IN  { am[k] : k \in 1..Min(Len(am), P.reach_mobs) }
        \cup { aa[k] : k \in 1..Min(Len(aa), P.reach_animals) }

\* update: the early return, the movement and the attack inputs (hunter_melee)
UpdateBegin(P) ==
    /\ pc = "update"
    /\ IF paused \/ round_over THEN
          /\ pc' = "render" /\ inp' = [NoInp EXCEPT !.step = "return"]
          /\ UNCHANGED << GameVars >>
       ELSE
          /\ \E held \in P.held :
               \E in_range \in (IF held \/ attack_latch THEN SUBSET Reachable(P)
                                ELSE { {} }) :
                 \E lucky \in SUBSET
                       { t \in try_attack(p1, now, in_range) :
                           /\ P.lucky /\ t[1] = "m" /\ ~IsBoss(mobs[t[2]])
                           /\ mobs[t[2]].hp - p1.weapon.dmg <= 0 } :
                    LET g == [p1 |-> p1, mobs |-> mobs, animals |-> animals,
                              weapon_drops |-> weapon_drops,
                              health_packs |-> health_packs,
                              end_boss_alive |-> end_boss_alive]
                        h == IF held \/ attack_latch
                             THEN hunter_melee(g, now, in_range, lucky) ELSE g
                    IN  /\ p1' = h.p1 /\ mobs' = h.mobs /\ animals' = h.animals
                        /\ weapon_drops' = h.weapon_drops
                        /\ health_packs' = h.health_packs
                        /\ end_boss_alive' = h.end_boss_alive
                        /\ inp' = [NoInp EXCEPT !.step = "attack",
                                                !.held = held \/ attack_latch,
                                                !.hit = in_range, !.lucky = lucky]
          /\ attack_latch' = FALSE
          /\ pc' = "portals"
          /\ UNCHANGED << theme, prev_theme, spawn_timer, animal_spawn_timer,
                          projectiles, paused, round_over, running >>
    /\ UNCHANGED << LoopVars, dt, now, nev, error, boss_spawns >>

\* update: the portals; on: the portal the player's rectangle overlaps
Portals(P) ==
    /\ pc = "portals"
    /\ \E on \in P.portals :
          /\ SetTheme(IF on = "N" THEN NETHER ELSE IF on = "E" THEN END ELSE theme)
          /\ inp' = [NoInp EXCEPT !.step = "portals", !.portal = on]
          /\ boss_spawns' = IF on = "E" /\ EntersEnd(END) THEN boss_spawns + 1
                            ELSE boss_spawns
    /\ pc' = "spawns"
    /\ UNCHANGED << spawn_timer, animal_spawn_timer, p1, animals, weapon_drops,
                    health_packs, projectiles, paused, round_over, running,
                    attack_latch, LoopVars, dt, now, nev, error >>

spawn_interval(th) ==
    IF th = NETHER THEN (SPAWN_INTERVAL_MS * 85) \div 100
    ELSE IF th = END THEN (SPAWN_INTERVAL_MS * 90) \div 100
    ELSE SPAWN_INTERVAL_MS

\* the kinds spawn_mob can draw: random.choice(current_pool())
PoolKinds(th) == UNION { Range(current_pool(th, x)) : x \in Range(MOB_KINDS_OVER) }

\* update: the two spawn timers, spawn_mob and spawn_animal
Spawns(P) ==
    /\ pc = "spawns"
    /\ LET mob_due == spawn_timer + dt >= spawn_interval(theme)
           draw_mob == mob_due /\ live_mob_count(mobs) < MAX_LIVE_MOBS
           anim_due == animal_due(animal_spawn_timer, dt)
           draw_animal == anim_due /\ alive_animal_count(animals) < MAX_ALIVE_ANIMALS
       IN  /\ spawn_timer' = IF mob_due THEN 0 ELSE spawn_timer + dt
           /\ animal_spawn_timer' = IF anim_due THEN 0 ELSE animal_spawn_timer + dt
           /\ \E mk \in (IF draw_mob
                         THEN { k \in PoolKinds(theme) : k.name \in P.mobkinds }
                         ELSE { BOSS_ENDER }),
                 ak \in (IF draw_animal
                         THEN { k \in Range(ANIMALS) : k.name \in P.animalkinds }
                         ELSE { ANIMALS[1] }) :
                 /\ mobs' = IF mob_due THEN spawn_mob(mobs, mk) ELSE mobs
                 /\ animals' = IF anim_due THEN spawn_animal(animals, ak) ELSE animals
                 /\ inp' = [NoInp EXCEPT
                              !.step = "spawns",
                              !.mob_kind = IF draw_mob THEN mk.name ELSE "none",
                              !.animal_kind = IF draw_animal THEN ak.name ELSE "none"]
    /\ pc' = "mobs" /\ i' = 1
    /\ UNCHANGED << theme, prev_theme, p1, weapon_drops, health_packs, projectiles,
                    paused, round_over, end_boss_alive, running, attack_latch,
                    snap, cur, dt, now, nev, error, boss_spawns >>

\* update: one iteration of "for m in self.mobs" (ai, touch damage, arrows)
MobStep(P) ==
    /\ pc = "mobs"
    /\ IF i > Len(mobs) THEN
          /\ pc' = "animals" /\ i' = 0 /\ inp' = NoInp
          /\ UNCHANGED << p1, round_over, mobs, projectiles >>
       ELSE IF ~mobs[i].alive THEN
          /\ i' = i + 1 /\ inp' = [NoInp EXCEPT !.step = "mob"]
          /\ UNCHANGED << pc, p1, round_over, mobs, projectiles >>
       ELSE
          \E touch \in (IF p1.alive THEN P.touch ELSE { FALSE }) :
             LET r == mobs_damage_p1_on_touch(p1, round_over, mobs[i], touch)
                 can == /\ mobs[i].kind.name \in ArcherNames
                        /\ mobs[i].shots_left > 0 /\ r.p1.alive
             IN  \E near \in (IF can THEN P.near ELSE { FALSE }) :
                    LET fire == shoots(mobs[i], r.p1, now, near)
                    IN  /\ p1' = r.p1 /\ round_over' = r.round_over
                        /\ mobs' = IF fire
                                   THEN [mobs EXCEPT ![i].last_shot_time = now,
                                                     ![i].shots_left = @ - 1,
                                                     ![i].shots_fired = @ + 1]
                                   ELSE mobs
                        /\ projectiles' = IF fire THEN Append(projectiles, Arrow)
                                          ELSE projectiles
                        /\ inp' = [NoInp EXCEPT !.step = "mob", !.touch = touch,
                                                !.near = near]
          /\ i' = i + 1 /\ UNCHANGED pc
    /\ UNCHANGED << theme, prev_theme, spawn_timer, animal_spawn_timer, animals,
                    weapon_drops, health_packs, paused, end_boss_alive, running,
                    attack_latch, snap, cur, dt, now, nev, error, boss_spawns >>

\* update: "for a in self.animals: a.ai()": the animals wander (their rect,
\* _dir and _change_dir_timer only); then list(enumerate(self.weapon_drops))
AnimalsWander ==
    /\ pc = "animals"
    /\ pc' = "loot" /\ i' = 1
    /\ snap' = weapon_drops /\ cur' = Indices(Len(weapon_drops))
    /\ inp' = NoInp
    /\ UNCHANGED << GameVars, dt, now, nev, error, boss_spawns >>


\* main(): "except Exception": the rest of update() and render() are skipped
Raise ==
    /\ pc' = "render" /\ error' = TRUE
    /\ i' = 0 /\ snap' = << >> /\ cur' = << >>

\* update: one iteration of "for i, (r, wpn) in list(enumerate(self.weapon_drops))";
\* then list(enumerate(self.health_packs)) of try_pick_health
Loot(P) ==
    /\ pc = "loot"
    /\ IF i > Len(snap) THEN
          /\ pc' = "health" /\ i' = 1
          /\ snap' = health_packs /\ cur' = Indices(Len(health_packs))
          /\ inp' = NoInp
          /\ UNCHANGED << p1, weapon_drops, error >>
       ELSE
          \E over \in P.over :
             /\ inp' = [NoInp EXCEPT !.step = "loot", !.over = over]
             /\ IF ~over THEN
                   /\ i' = i + 1
                   /\ UNCHANGED << pc, p1, weapon_drops, snap, cur, error >>
                ELSE
                   /\ p1' = [p1 EXCEPT !.weapon = snap[i]]
                   /\ IF i > Len(cur) THEN
                         Raise /\ UNCHANGED weapon_drops
                      ELSE
                         /\ cur' = RemoveAt(cur, i)
                         /\ weapon_drops' = Deref(snap, RemoveAt(cur, i))
                         /\ i' = i + 1
                         /\ UNCHANGED << pc, snap, error >>
    /\ UNCHANGED << theme, prev_theme, spawn_timer, animal_spawn_timer, mobs, animals,
                    health_packs, projectiles, paused, round_over, end_boss_alive,
                    running, attack_latch, dt, now, nev, boss_spawns >>

\* try_pick_health(self.p1): one iteration of its for-loop;
\* then list(enumerate(self.projectiles)) of update_projectiles
Health(P) ==
    /\ pc = "health"
    /\ IF i > Len(snap) THEN
          /\ pc' = "projectiles" /\ i' = 1
          /\ snap' = projectiles /\ cur' = Indices(Len(projectiles))
          /\ inp' = NoInp
          /\ UNCHANGED << p1, health_packs, error >>
       ELSE
          \E over \in (IF p1.alive THEN P.over ELSE { FALSE }) :
             /\ inp' = [NoInp EXCEPT !.step = "health", !.over = over]
             /\ IF ~(p1.alive /\ over) THEN
                   /\ i' = i + 1
                   /\ UNCHANGED << pc, p1, health_packs, snap, cur, error >>
                ELSE
                   LET sn == [snap EXCEPT ![i].heals = @ + 1]
                   IN  /\ p1' = [p1 EXCEPT !.hp = clamp(p1.hp + snap[i].amount, 0,
                                                       PLAYER_MAX_HP)]
                       /\ IF i > Len(cur) THEN
                             Raise /\ health_packs' = Deref(sn, cur)
                          ELSE
                             /\ cur' = RemoveAt(cur, i) /\ snap' = sn
                             /\ health_packs' = Deref(sn, RemoveAt(cur, i))
                             /\ i' = i + 1
                             /\ UNCHANGED << pc, error >>
    /\ UNCHANGED << theme, prev_theme, spawn_timer, animal_spawn_timer, mobs, animals,
                    weapon_drops, projectiles, paused, round_over, end_boss_alive,
                    running, attack_latch, dt, now, nev, boss_spawns >>

\* update_projectiles(dt): one iteration of its for-loop
Projectile(P) ==
    /\ pc = "projectiles"
    /\ IF i > Len(snap) THEN
          /\ pc' = "cleanup" /\ i' = 0 /\ snap' = << >> /\ cur' = << >>
          /\ inp' = NoInp
          /\ UNCHANGED << p1, round_over, projectiles, error >>
       ELSE
          \E off \in (IF snap[i].alive THEN P.off ELSE { FALSE }) :
             LET u == arrow_update(snap[i], dt, off)
             IN  \E over \in (IF u.alive /\ p1.alive THEN P.over ELSE { FALSE }) :
                    LET hit == u.alive /\ p1.alive /\ over
                        q == IF hit THEN apply_damage(p1, u.dmg) ELSE p1
                        v == IF hit THEN [u EXCEPT !.alive = FALSE, !.hits = @ + 1] ELSE u
                        sn == [snap EXCEPT ![i] = v]
                    IN  /\ inp' = [NoInp EXCEPT !.step = "projectile", !.off = off,
                                                !.over = over]
                        /\ p1' = q
                        /\ IF v.alive THEN
                              /\ snap' = sn /\ projectiles' = Deref(sn, cur)
                              /\ i' = i + 1
                              /\ UNCHANGED << pc, cur, round_over, error >>
                           ELSE IF i > Len(cur) THEN
                              /\ Raise /\ projectiles' = Deref(sn, cur)
                              /\ UNCHANGED round_over
                           ELSE
                              /\ snap' = sn /\ cur' = RemoveAt(cur, i)
                              /\ projectiles' = Deref(sn, RemoveAt(cur, i))
                              /\ round_over' = IF hit /\ q.hp <= 0 THEN TRUE
                                               ELSE round_over
                              /\ i' = i + 1
                              /\ UNCHANGED << pc, error >>
    /\ UNCHANGED << theme, prev_theme, spawn_timer, animal_spawn_timer, mobs, animals,
                    weapon_drops, health_packs, paused, end_boss_alive, running,
                    attack_latch, dt, now, nev, boss_spawns >>

\* update: the cleanup of the dead mobs and animals
Cleanup ==
    /\ pc = "cleanup"
    /\ mobs' = AliveOnly(mobs) /\ animals' = AliveOnly(animals)
    /\ pc' = "render" /\ inp' = NoInp
    /\ UNCHANGED << theme, prev_theme, spawn_timer, animal_spawn_timer, p1,
                    weapon_drops, health_packs, projectiles, paused, round_over,
                    end_boss_alive, running, attack_latch, LoopVars, dt, now, nev,
                    error, boss_spawns >>

\* main(): game.render() (or the error overlay), await asyncio.sleep(0)
Render ==
    /\ pc = "render"
    /\ pc' = "loop" /\ inp' = NoInp /\ error' = FALSE
    /\ UNCHANGED << GameVars, LoopVars, dt, now, nev, boss_spawns >>

-----------------------------------------------------------------------------
(* Specifications                                                          *)

Step(P) ==
    \/ Tick(P)
    \/ Exit
    \/ HandleEvent(P)
    \/ EventsDone
    \/ UpdateBegin(P)
    \/ Portals(P)
    \/ Spawns(P)
    \/ MobStep(P)
    \/ AnimalsWander
    \/ Loot(P)
    \/ Health(P)
    \/ Projectile(P)
    \/ Cleanup
    \/ Render

MobNames == { k.name : k \in Range(MOB_KINDS_OVER) \cup Range(MOB_KINDS_NETH) }

AnimalNames == { k.name : k \in Range(ANIMALS) }


\* a game with no input but QUIT: the base of the games below
Quiet ==
    [dts |-> { 1000 }, horizon |-> 0, events |-> { "QUIT" }, maxev |-> 1,
     held |-> { FALSE }, reach_mobs |-> 0, reach_animals |-> 0, lucky |-> FALSE,
     portals |-> { "none" }, mobkinds |-> { "Zombie" }, animalkinds |-> { "Chicken" },
     touch |-> { FALSE }, near |-> { FALSE }, over |-> { FALSE }, off |-> { FALSE }]

\* Spec: every event, portal and mob kind; no combat.  Frames of 500 or 1000 ms.
WorldHalfSeconds == 4
WorldEvents == 2

World ==
    [Quiet EXCEPT !.dts = { 500, 1000 }, !.horizon = WorldHalfSeconds * 500,
                  !.events = Events, !.maxev = WorldEvents,
                  !.portals = { "none", "N", "E" }, !.mobkinds = MobNames]

Next == Step(World)

Spec == Init /\ [][Next]_vars

\* SpecCap: one mob spawns in every frame of 1000 ms; keys 1 and 3; no combat
CapSeconds == 27

Cap ==
    [Quiet EXCEPT !.horizon = CapSeconds * 1000, !.events = { "K_1", "K_3", "QUIT" }]

NextCap == Step(Cap)

SpecCap == Init /\ [][NextCap]_vars

\* SpecLoot: frames of 300 ms (so that no weapon's cooldown skips an attack); key 3;
\* the attack reaches the first alive mob; the killed may drop; pickups
LootFrames == 17

Looting ==
    [Quiet EXCEPT !.dts = { 300 }, !.horizon = LootFrames * 300,
                  !.events = { "K_3", "QUIT" }, !.held = BOOLEAN, !.reach_mobs = 1,
                  !.lucky = TRUE, !.over = BOOLEAN]

NextLoot == Step(Looting)

SpecLoot == Init /\ [][NextLoot]_vars

\* SpecDeath: frames of 1000 ms; keys 3, R and P; every alive mob may touch the
\* player; the attack reaches the first alive mob
DeathSeconds == 6

Deadly ==
    [Quiet EXCEPT !.horizon = DeathSeconds * 1000,
                  !.events = { "K_3", "K_r", "K_p", "QUIT" },
                  !.held = BOOLEAN, !.reach_mobs = 1, !.touch = BOOLEAN]

NextDeath == Step(Deadly)

SpecDeath == Init /\ [][NextDeath]_vars

\* SpecPacks: frames of 1750 or 3500 ms; chickens and pigs; the attack reaches the
\* first two alive animals; pickups; key P
PackHalfFrames == 6

Herd ==
    [Quiet EXCEPT !.dts = { 1750, 3500 }, !.horizon = PackHalfFrames * 1750,
                  !.events = { "K_p", "QUIT" },
                  !.held = BOOLEAN, !.reach_animals = 2,
                  !.animalkinds = { "Chicken", "Pig" }, !.over = BOOLEAN]

NextPacks == Step(Herd)

SpecPacks == Init /\ [][NextPacks]_vars

\* the main loop keeps running: a frame that can be taken is taken
SpecPacksFair == SpecPacks /\ WF_vars(NextPacks)

\* SpecArrows: frames of 500 ms; skeletons; touch, archery, arrows
ArrowHalfSeconds == 5

Archery ==
    [Quiet EXCEPT !.dts = { 500 }, !.horizon = ArrowHalfSeconds * 500,
                  !.events = { "K_p", "QUIT" },
                  !.mobkinds = { "Skeleton" },
                  !.touch = BOOLEAN, !.near = BOOLEAN, !.over = BOOLEAN,
                  !.off = BOOLEAN]

NextArrows == Step(Archery)

SpecArrows == Init /\ [][NextArrows]_vars

\* SpecThemes: frames of 1000 ms; the theme keys, the portals, key P
ThemeSeconds == 4
ThemeEvents == 2

Themes ==
    [Quiet EXCEPT !.horizon = ThemeSeconds * 1000,
                  !.events = { "K_1", "K_2", "K_3", "K_p", "QUIT" },
                  !.maxev = ThemeEvents,
                  !.portals = { "none", "N", "E" }]

NextThemes == Step(Themes)

SpecThemes == Init /\ [][NextThemes]_vars

\* SpecShots: frames of 475 or 950 ms; skeletons in and out of range; arrows
ShotFrames == 8

Shooting ==
    [Quiet EXCEPT !.dts = { 475, 950 }, !.horizon = ShotFrames * 475,
                  !.mobkinds = { "Skeleton" },
                  !.near = BOOLEAN, !.over = BOOLEAN]

NextShots == Step(Shooting)

SpecShots == Init /\ [][NextShots]_vars

\* SpecQuit: frames of 1000 ms; every alive mob touches the player; two events
\* a frame of key 3, R, Escape and QUIT
QuitSeconds == 7
QuitEvents == 2

Quitting ==
    [Quiet EXCEPT !.horizon = QuitSeconds * 1000,
                  !.events = { "K_3", "K_r", "K_ESCAPE", "QUIT" },
                  !.maxev = QuitEvents, !.touch = { TRUE }]

NextQuit == Step(Quitting)

SpecQuit == Init /\ [][NextQuit]_vars

\* SpecMelee: frames of 200 ms; the attack key and the ATTACK tap; the first
\* two alive mobs and the first alive animal can be in range; key P
MeleeFrames == 19

Melee ==
    [Quiet EXCEPT !.dts = { 200 }, !.horizon = MeleeFrames * 200,
                  !.events = { "ATTACK_TAP", "K_p", "QUIT" },
                  !.held = BOOLEAN, !.reach_mobs = 2, !.reach_animals = 1]

NextMelee == Step(Melee)

SpecMelee == Init /\ [][NextMelee]_vars

-----------------------------------------------------------------------------
(* Claims                                                                  *)

BossCount(ms) == Cardinality({ k \in DOMAIN ms : IsBoss(ms[k]) })

\* C2: whenever the theme changes from OVERWORLD or NETHER to END, the mob list
\* then holds exactly one boss, alive with hp 400, and end_boss_alive is true;
\* setting the theme to END (key 3, E portal) while it is END changes no mob.
C2_BossOnEnteringEnd ==
    [][ /\ (theme # END /\ theme' = END) =>
              /\ BossCount(mobs') = 1
              /\ \A k \in DOMAIN mobs' :
                    IsBoss(mobs'[k]) => mobs'[k].alive /\ mobs'[k].hp = 400
              /\ end_boss_alive'
        /\ (theme = END /\ theme' = END /\ (inp'.ev = "K_3" \/ inp'.portal = "E")) =>
              /\ mobs' = mobs
              /\ end_boss_alive' = end_boss_alive
      ]_vars

\* C2 witness: key 3 has just brought the game into END a second time, and the
\* boss of the earlier visit is replaced by one fresh boss
C2_Reentered ==
    /\ inp.step = "event" /\ inp.ev = "K_3" /\ theme = END
    /\ boss_spawns >= 2
    /\ BossCount(mobs) = 1 /\ end_boss_alive
    /\ \E k \in DOMAIN mobs : IsBoss(mobs[k]) /\ mobs[k].alive /\ mobs[k].hp = 400

\* C4: spawn_mob creates Overworld kinds in OVERWORLD and END, Nether kinds only
\* in NETHER (with the Overworld kinds), never the boss; a boss appears only on
\* a transition into END; no other step adds a mob.
C4_ThemeGovernsKinds ==
    [][ /\ pc = "spawns" =>
              \/ mobs' = mobs
              \/ /\ Len(mobs') = Len(mobs) + 1
                 /\ SubSeq(mobs', 1, Len(mobs)) = mobs
                 /\ LET k == mobs'[Len(mobs')].kind
                    IN  /\ k.color_key # "boss"
                        /\ theme \in { OVERWORLD, END } => k \in Range(MOB_KINDS_OVER)
                        /\ theme = NETHER =>
                              k \in Range(MOB_KINDS_NETH) \cup Range(MOB_KINDS_OVER)
                        /\ k \in Range(MOB_KINDS_NETH) => theme = NETHER
        /\ pc # "spawns" => Len(NoBoss(mobs')) <= Len(NoBoss(mobs))
        /\ BossCount(mobs') > BossCount(mobs) => theme # END /\ theme' = END
      ]_vars

\* C4 witness: spawn_mob has just created a Nether kind, in NETHER
C4_NetherSpawn ==
    /\ inp.step = "spawns" /\ inp.mob_kind = "Blaze" /\ theme = NETHER
    /\ mobs # << >> /\ mobs[Len(mobs)].kind.name = "Blaze"

\* C9: a step of handle_events or update taken while paused or round_over, other
\* than one that un-pauses or restarts, leaves the player, the five lists, the
\* score and both spawn timers unchanged.
C9_FrozenWhilePaused ==
    [][ ( /\ paused \/ round_over
          /\ pc \in { "events", "update" }
          /\ paused' = paused /\ round_over' = round_over )
        => UNCHANGED << p1, mobs, animals, projectiles, weapon_drops, health_packs,
                        spawn_timer, animal_spawn_timer >>
      ]_vars


\* C1: the alive mobs of the mob list, the boss included, are at most MAX_LIVE_MOBS
C1_MobCap == live_mob_count(mobs) <= MAX_LIVE_MOBS

\* C6: picking up a weapon drop never leaves the player with a weapon of lower
\* damage than the one held before
C6_PickupUpgrades ==
    [][ pc = "loot" => p1'.weapon.dmg >= p1.weapon.dmg ]_vars


\* C3: in the update in which the accumulated animal_spawn_timer reaches 3500 ms
\* the timer restarts and, with fewer than 7 animals alive, one animal is added
\* (before that the timer only accumulates dt); and from every running update
\* with fewer than 7 animals alive and 3500 ms of frames still to come, an animal
\* is eventually spawned unless the game is paused, over or quit: killing
\* animals does not disable it.
C3_AnimalsRespawn ==
    /\ [][ pc = "spawns" =>
              IF animal_spawn_timer + dt >= 3500 THEN
                  /\ animal_spawn_timer' = 0
                  /\ IF alive_animal_count(animals) < 7
                     THEN /\ Len(animals') = Len(animals) + 1
                          /\ SubSeq(animals', 1, Len(animals)) = animals
                          /\ animals'[Len(animals')].alive
                          /\ inp'.animal_kind # "none"
                     ELSE animals' = animals
              ELSE
                  /\ animal_spawn_timer' = animal_spawn_timer + dt
                  /\ animals' = animals
         ]_vars
    /\ ( /\ pc = "update" /\ ~paused /\ ~round_over
         /\ alive_animal_count(animals) < 7
         /\ now - dt + 3500 <= Herd.horizon )
       ~> ( \/ inp.animal_kind # "none"
            \/ paused \/ round_over \/ ~running )

\* C3 witness: an animal has just been spawned after an animal was killed
C3_SpawnAfterKill ==
    /\ inp.step = "spawns" /\ inp.animal_kind # "none"
    /\ health_packs # << >>
    /\ animals # << >> /\ animals[Len(animals)].alive

\* C5: in try_pick_health, a pack the alive player overlaps heals to
\* min(max_hp, hp + amount) and exactly that pack leaves health_packs; a pack
\* not overlapped stays and heals nothing; no pack heals more than once; the
\* player's hp never exceeds max_hp.
C5_HealOnce ==
    /\ [][ (pc = "health" /\ i <= Len(snap)) =>
              IF p1.alive /\ inp'.over THEN
                  /\ p1'.hp = Min(100, p1.hp + snap[i].amount)
                  /\ health_packs' = Deref(snap, SelectSeq(cur, LAMBDA x : x # i))
              ELSE
                  /\ p1'.hp = p1.hp
                  /\ health_packs' = health_packs
         ]_vars
    /\ [](\A k \in DOMAIN health_packs : health_packs[k].heals = 0)
    /\ [](p1.hp <= 100)

DiedAt(as, bs) ==
    { k \in DOMAIN as : as[k].alive /\ k \in DOMAIN bs /\ ~bs[k].alive }

RECURSIVE PacksFor(_, _, _)
PacksFor(as, died, k) ==
    IF k > Len(as) THEN << >>
    ELSE (IF k \in died THEN << [amount |-> as[k].kind.heal_amount, heals |-> 0] >>
          ELSE << >>) \o PacksFor(as, died, k + 1)

\* C7: the animals' step leaves the player alone; an animal dies only of a melee
\* hit, and the attack appends to health_packs exactly one pack per animal it
\* killed, carrying that kind's heal_amount (15, 25 or 35); no other step adds a
\* pack.
C7_AnimalsYieldPacks ==
    [][ LET died == DiedAt(animals, animals')
        IN  /\ pc = "animals" => p1' = p1
            /\ died # {} =>
                  /\ pc = "update"
                  /\ died \subseteq { t[2] : t \in { x \in inp'.hit : x[1] = "a" } }
                  /\ \A k \in died : animals'[k].hp <= 0
            /\ IF pc = "update"
               THEN health_packs' = health_packs \o PacksFor(animals, died, 1)
               ELSE Len(health_packs') <= Len(health_packs)
            /\ \A k \in DOMAIN health_packs' :
                  health_packs'[k].amount \in { 15, 25, 35 }
      ]_vars

\* C7 witness: the attack has just killed an animal and its pack is the last one
C7_PackFromAnimal ==
    /\ inp.step = "attack" /\ pc = "portals"
    /\ health_packs # << >>
    /\ \E k \in DOMAIN animals :
          /\ ~animals[k].alive /\ << "a", k >> \in inp.hit
          /\ health_packs[Len(health_packs)].amount = animals[k].kind.heal_amount

\* C8: the player's hp decreases only by the contact_dmg of an alive mob that
\* touches the alive player, or by 12 from an alive arrow that overlaps the alive
\* player; an arrow damages the player at most once and is dead afterwards.
C8_OnlyMobsDamage ==
    /\ [][ p1'.hp < p1.hp =>
              \/ /\ pc = "mobs" /\ i <= Len(mobs)
                 /\ mobs[i].alive /\ p1.alive /\ inp'.touch
                 /\ p1.hp - p1'.hp = mobs[i].kind.contact_dmg
              \/ /\ pc = "projectiles" /\ i <= Len(snap)
                 /\ snap[i].alive /\ snap[i].hits = 0
                 /\ p1.alive /\ inp'.over
                 /\ p1.hp - p1'.hp = 12
         ]_vars
    /\ [](\A k \in DOMAIN projectiles :
             /\ projectiles[k].hits <= 1
             /\ projectiles[k].hits = 1 => ~projectiles[k].alive)
    /\ [](pc = "projectiles" =>
             \A k \in DOMAIN snap :
                /\ snap[k].hits <= 1
                /\ snap[k].hits = 1 => ~snap[k].alive)

\* C8 witness: a skeleton has touched the player (9) and its arrow has hit (12)
C8_TouchedAndShot ==
    /\ inp.step = "projectile" /\ inp.over
    /\ p1.hp = 100 - 9 - 12

\* C10: R while round_over is false changes nothing; R while round_over is true
\* puts the game into its initial state.
C10_RestartOnlyWhenOver ==
    [][ (pc = "events" /\ inp'.step = "event" /\ inp'.ev = "K_r") =>
           IF round_over THEN
               /\ theme' = OVERWORLD /\ prev_theme' = OVERWORLD
               /\ p1'.alive /\ p1'.hp = 100 /\ p1'.score = 0
               /\ p1'.weapon.name = "Sword"
               /\ mobs' = << >> /\ animals' = << >> /\ projectiles' = << >>
               /\ weapon_drops' = << >> /\ health_packs' = << >>
               /\ spawn_timer' = 0 /\ animal_spawn_timer' = 0
               /\ ~paused' /\ ~round_over' /\ ~end_boss_alive'
           ELSE UNCHANGED GameVars
      ]_vars

\* C10 witness: R has just restarted a finished round
C10_Restarted ==
    /\ inp.step = "event" /\ inp.ev = "K_r" /\ inp.did = "restart"
    /\ p1 = Player /\ mobs = << >> /\ ~round_over /\ now > 0

\* C11: key 1, 2, 3 sets the theme to OVERWORLD, NETHER, END; in update the N
\* portal sets NETHER and the E portal END when the player overlaps it, and no
\* overlap leaves the theme; no other step changes the theme; prev_theme equals
\* theme after every step of handle_events and update, and a theme change is
\* processed once: the bosses are removed and, in END, one boss is added, the
\* other mobs are kept.
C11_ThemeSwitching ==
    /\ [][ /\ (inp'.step = "event" /\ inp'.ev = "K_1") => theme' = OVERWORLD
           /\ (inp'.step = "event" /\ inp'.ev = "K_2") => theme' = NETHER
           /\ (inp'.step = "event" /\ inp'.ev = "K_3") => theme' = END
           /\ (inp'.step = "portals" /\ inp'.portal = "N") => theme' = NETHER
           /\ (inp'.step = "portals" /\ inp'.portal = "E") => theme' = END
           /\ (inp'.step = "portals" /\ inp'.portal = "none") => theme' = theme
           /\ theme' # theme =>
                 /\ \/ inp'.step = "event" /\ inp'.ev \in { "K_1", "K_2", "K_3" }
                    \/ inp'.step = "portals" /\ inp'.portal \in { "N", "E" }
                    \/ inp'.step = "event" /\ inp'.did = "restart"
                 /\ inp'.did # "restart" =>
                       /\ NoBoss(mobs') = NoBoss(mobs)
                       /\ BossCount(mobs') = IF theme' = END THEN 1 ELSE 0
         ]_vars
    /\ [](prev_theme = theme)

\* C11 witness: the N portal has just switched the theme from END to NETHER,
\* and the boss of the End is gone
C11_PortalFromEnd ==
    /\ inp.step = "portals" /\ inp.portal = "N"
    /\ theme = NETHER /\ prev_theme = NETHER
    /\ boss_spawns >= 1 /\ BossCount(mobs) = 0 /\ mobs # << >>

C13_EscQuits ==
    [][ /\ (inp'.step = "event" /\ inp'.ev \in { "K_ESCAPE", "QUIT" }) => ~running'
        /\ ~running => ~running'
        /\ (running /\ ~running') =>
              inp'.step = "event" /\ inp'.ev \in { "K_ESCAPE", "QUIT" }
      ]_vars

\* C14: in a running update with an attack input and the weapon's cooldown_ms
\* passed since last_attack, exactly the targets in range, all alive, lose the
\* weapon's dmg, and last_attack becomes the time of the attack if there is
\* such a target and stays otherwise; without an attack input, or within the
\* cooldown, no mob or animal loses hp and last_attack stays; no later step of
\* the frame changes last_attack.
C14_MeleeAndCooldown ==
    [][ /\ (pc = "update" /\ ~(paused \/ round_over)) =>
              LET ready == now - p1.last_attack >= p1.weapon.cooldown_ms
                  hits == IF inp'.held /\ ready THEN inp'.hit ELSE {}
              IN  /\ \A t \in inp'.hit :
                        IF t[1] = "m" THEN mobs[t[2]].alive ELSE animals[t[2]].alive
                  /\ Len(mobs') = Len(mobs) /\ Len(animals') = Len(animals)
                  /\ \A k \in DOMAIN mobs :
                        mobs'[k].hp = mobs[k].hp -
                           (IF << "m", k >> \in hits THEN p1.weapon.dmg ELSE 0)
                  /\ \A k \in DOMAIN animals :
                        animals'[k].hp = animals[k].hp -
                           (IF << "a", k >> \in hits THEN p1.weapon.dmg ELSE 0)
                  /\ p1'.last_attack = IF hits # {} THEN now ELSE p1.last_attack
        /\ pc \notin { "update", "events" } => p1'.last_attack = p1.last_attack
      ]_vars

\* C14 witness: an attack with a target in range has just been refused, within
\* the cooldown of an earlier attack that hit
C14_Refused ==
    /\ inp.step = "attack" /\ inp.held /\ inp.hit # {}
    /\ p1.last_attack > 0
    /\ now - p1.last_attack > 0
    /\ now - p1.last_attack < p1.weapon.cooldown_ms

Count(s, x) == Cardinality({ k \in DOMAIN s : s[k] = x })

\* C15: the attack appends one End Sword per boss it killed, at most one Diamond
\* Sword per other mob it killed, and nothing else; in the loot loop a drop the
\* player overlaps becomes the player's weapon and exactly that drop leaves
\* weapon_drops, a drop not overlapped stays and leaves the weapon alone.
C15_WeaponDrops ==
    [][ /\ (pc = "update" /\ ~(paused \/ round_over)) =>
              LET died == { k \in DOMAIN mobs : mobs[k].alive /\ ~mobs'[k].alive }
                  new == SubSeq(weapon_drops', Len(weapon_drops) + 1, Len(weapon_drops'))
              IN  /\ Len(weapon_drops') >= Len(weapon_drops)
                  /\ SubSeq(weapon_drops', 1, Len(weapon_drops)) = weapon_drops
                  /\ \A k \in DOMAIN new : new[k] \in { BOSS_LOOT, ELITE_SWORD }
                  /\ Count(new, BOSS_LOOT) =
                        Cardinality({ k \in died : IsBoss(mobs[k]) })
                  /\ Count(new, ELITE_SWORD) <=
                        Cardinality({ k \in died : ~IsBoss(mobs[k]) })
        /\ (pc = "loot" /\ i <= Len(snap)) =>
              IF inp'.over THEN
                  /\ p1'.weapon = snap[i]
                  /\ weapon_drops' = Deref(snap, SelectSeq(cur, LAMBDA x : x # i))
              ELSE
                  /\ p1'.weapon = p1.weapon
                  /\ weapon_drops' = weapon_drops
      ]_vars

=============================================================================
